---- MODULE Spec2Model ----
(***************************************************************************)
(* Model of vaegan/models.py: create_models builds the encoder, the        *)
(* decoder and the discriminator of a VAE-GAN, wires them into five        *)
(* composite graphs, binds the losses and returns the seven graphs.        *)
(*                                                                         *)
(* Layers are objects on a heap (layers), a sub-model is a chain of layer  *)
(* applications (submodels), a symbolic tensor of the outer graph is a     *)
(* named node (tensors), a composite model is a record of tensor names     *)
(* (models).  Real numbers are rationals <<num, den>> for the Python       *)
(* scalars and fixed-point integers (units of 1/Scale) for tensor values.  *)
(***************************************************************************)
EXTENDS Integers, Sequences, FiniteSets, TLC

VARIABLES pc, args, layers, sampler, submodels, tensors, models,
          normalized_weight, result, fault, weights, eval

vars == <<pc, args, layers, sampler, submodels, tensors, models,
          normalized_weight, result, fault, weights, eval>>

----------------------------------------------------------------------------
(* Bounds of the model *)

\* largest batch size fed to a graph
MaxBatch == 2
\* largest value a trainable weight is set to
MaxWeight == 1

----------------------------------------------------------------------------
(* Constants of create_models, lines 16-24 *)

image_shape == <<64, 64, 3>>
n_channels == image_shape[Len(image_shape)]
n_encoder == 1024
n_discriminator == 512
latent_dim == 128
decode_from_shape == <<8, 8, 256>>
n_decoder == decode_from_shape[1] * decode_from_shape[2] * decode_from_shape[3]
\* leaky_relu_alpha = 0.2, in thousandths
leaky_relu_alpha == 200

\* Keras defaults of BatchNormalization(): momentum 0.99 (thousandths),
\* epsilon 1e-3 (millionths)
KerasBnMomentum == 990
KerasBnEpsilon == 1000

\* fixed-point unit of tensor values: 1.0 is Scale
Scale == 1000

----------------------------------------------------------------------------
(* Rationals <<num, den>> for the Python scalars *)

Abs(n) == IF n < 0 THEN -n ELSE n
RECURSIVE Gcd(_, _)
Gcd(a, b) == IF b = 0 THEN Abs(a) ELSE Gcd(b, a % Abs(b))

\* lowest terms, positive denominator (den # 0)
Rat(n, d) ==
    LET g == Gcd(n, d)
    IN IF d < 0 THEN <<(-n) \div g, (-d) \div g>> ELSE <<n \div g, d \div g>>
RatSub(a, b) ==
    LET g == Gcd(a[2], b[2])
    IN Rat(a[1] * (b[2] \div g) - b[1] * (a[2] \div g), (a[2] \div g) * b[2])
RatMul(a, b) ==
    LET g1 == Gcd(a[1], b[2])
        g2 == Gcd(b[1], a[2])
    IN Rat((a[1] \div g1) * (b[1] \div g2), (a[2] \div g2) * (b[2] \div g1))
\* a / b of Python numbers: raises ZeroDivisionError when b == 0
RatDivFaults(a, b) == b[1] = 0
RatDiv(a, b) == RatMul(a, <<b[2], b[1]>>)
RatLt(a, b) == a[1] * b[2] < b[1] * a[2]

\* the values recon_vs_gan_weight is called with (1e-6 is the default)
Weights == { Rat(1, 1000000), Rat(0, 1), Rat(1, 4), Rat(1, 2), Rat(3, 4),
             Rat(1, 1), Rat(3, 2), Rat(-1, 2) }
\* wdecay in millionths (1e-5 is the default)
Wdecays == { 10, 1 }
\* bn_mom in thousandths, bn_eps in millionths (the defaults)
BnMoms == { 900 }
BnEpss == { 1 }

----------------------------------------------------------------------------
(* Layer objects *)

NoReg == [kind |-> "none", coef |-> 0]
l2(c) == [kind |-> "l2", coef |-> c]

Layer(type) ==
    [type |-> type, units |-> 0, kernel_size |-> 0, strides |-> 1,
     padding |-> "valid", activation |-> "linear", kernel_regularizer |-> NoReg,
     kernel_initializer |-> "glorot_uniform", name |-> "", momentum |-> 0,
     epsilon |-> 0, alpha |-> 0, target_shape |-> <<>>]

Conv2D(filters, k, strides, padding, activation, reg, init, name) ==
    [Layer("Conv2D") EXCEPT !.units = filters, !.kernel_size = k,
        !.strides = strides, !.padding = padding, !.activation = activation,
        !.kernel_regularizer = reg, !.kernel_initializer = init, !.name = name]

Conv2DTranspose(filters, k, strides, padding, reg, init) ==
    [Layer("Conv2DTranspose") EXCEPT !.units = filters, !.kernel_size = k,
        !.strides = strides, !.padding = padding,
        !.kernel_regularizer = reg, !.kernel_initializer = init]

Dense(units, activation, reg, init, name) ==
    [Layer("Dense") EXCEPT !.units = units, !.activation = activation,
        !.kernel_regularizer = reg, !.kernel_initializer = init, !.name = name]

BatchNormalization(mom, eps) ==
    [Layer("BatchNormalization") EXCEPT !.momentum = mom, !.epsilon = eps]

LeakyReLU(alpha) == [Layer("LeakyReLU") EXCEPT !.alpha = alpha]
Activation(a) == [Layer("Activation") EXCEPT !.activation = a]
Flatten == Layer("Flatten")
Reshape(shape) == [Layer("Reshape") EXCEPT !.target_shape = shape]
Lambda(name) == [Layer("Lambda") EXCEPT !.name = name]

\* the layers that own a trainable kernel
HasKernel(l) == l.type \in {"Conv2D", "Conv2DTranspose", "Dense"}

\* conv_block(None, filters, leaky, transpose): the three layers of a block
conv_block(a, filters, leaky, transpose) ==
    << IF transpose
         THEN Conv2DTranspose(filters, 5, 2, "same", l2(a.wdecay), "he_uniform")
         ELSE Conv2D(filters, 5, 2, "same", "linear", l2(a.wdecay), "he_uniform", ""),
       BatchNormalization(a.bn_mom, a.bn_eps),
       IF leaky THEN LeakyReLU(leaky_relu_alpha) ELSE Activation("relu") >>

\* the layers create_encoder instantiates, in order
EncoderLayers(a) ==
    conv_block(a, 64, TRUE, FALSE) \o conv_block(a, 128, TRUE, FALSE)
    \o conv_block(a, 256, TRUE, FALSE)
    \o << Flatten,
          Dense(n_encoder, "linear", l2(a.wdecay), "he_uniform", ""),
          BatchNormalization(KerasBnMomentum, KerasBnEpsilon),
          LeakyReLU(leaky_relu_alpha),
          Dense(latent_dim, "linear", NoReg, "he_uniform", "z_mean"),
          Dense(latent_dim, "linear", NoReg, "he_uniform", "z_log_var") >>

\* the layers of the Sequential decoder, in order
DecoderLayers(a) ==
    << Dense(n_decoder, "linear", l2(a.wdecay), "he_uniform", ""),
       BatchNormalization(KerasBnMomentum, KerasBnEpsilon),
       LeakyReLU(leaky_relu_alpha),
       Reshape(decode_from_shape) >>
    \o conv_block(a, 256, TRUE, TRUE) \o conv_block(a, 128, TRUE, TRUE)
    \o conv_block(a, 32, TRUE, TRUE)
    \o << Conv2D(n_channels, 5, 1, "same", "tanh", l2(a.wdecay), "he_uniform",
                 "output_image") >>

\* the layers create_discriminator instantiates, in order; the batch
\* normalization and the activation of the last conv_block are created and
\* dropped (only element [0] of the block is applied)
DiscriminatorLayers(a) ==
    << Conv2D(32, 5, 1, "same", "linear", l2(a.wdecay), "he_uniform", ""),
       LeakyReLU(leaky_relu_alpha) >>
    \o conv_block(a, 128, TRUE, FALSE) \o conv_block(a, 256, TRUE, FALSE)
    \o conv_block(a, 256, TRUE, FALSE)
    \o << BatchNormalization(a.bn_mom, a.bn_eps),
          LeakyReLU(leaky_relu_alpha),
          Flatten,
          Dense(n_discriminator, "linear", l2(a.wdecay), "he_uniform", ""),
          BatchNormalization(KerasBnMomentum, KerasBnEpsilon),
          LeakyReLU(leaky_relu_alpha),
          Dense(1, "sigmoid", l2(a.wdecay), "he_uniform", "") >>

----------------------------------------------------------------------------
(* Sub-model graphs: chain[i] applies layer chain[i].layer to the output   *)
(* of chain[chain[i].from], 0 being the model's input                      *)

\* ids base+1 .. base+n applied one after the other
Straight(base, n) == [i \in 1..n |-> [layer |-> base + i, from |-> i - 1]]

\* Model(enc_input, [z_mean, z_log_var]): both heads read the same y
EncoderGraph(base) ==
    [name |-> "encoder",
     chain |-> Straight(base, 13)
               \o << [layer |-> base + 14, from |-> 13],
                     [layer |-> base + 15, from |-> 13] >>,
     outs |-> <<14, 15>>]

DecoderGraph(base) ==
    [name |-> "decoder", chain |-> Straight(base, 14), outs |-> <<14>>]

\* Model(dis_input, [d, d_feat]): d_feat is the output of the third strided
\* convolution, whose own batch normalization and activation (heap ids
\* base+10 and base+11) are not part of the graph
DiscriminatorGraph(base) ==
    [name |-> "discriminator",
     chain |-> Straight(base, 9)
               \o [i \in 1..7 |-> [layer |-> base + 11 + i, from |-> 8 + i]],
     outs |-> <<16, 9>>]

----------------------------------------------------------------------------
(* Shape propagation; a shape is <<batch, d1, ...>> *)

RECURSIVE Prod(_)
Prod(s) == IF s = <<>> THEN 1 ELSE s[1] * Prod(Tail(s))

\* ConvOutLen with the padding argument ignored
ConvOutLenNoPadding(n, l) == (n - l.kernel_size) \div l.strides + 1

\* output length of a convolution along one spatial axis
ConvOutLen(n, l) ==
    IF l.padding = "same" THEN (n + l.strides - 1) \div l.strides
    ELSE (n - l.kernel_size) \div l.strides + 1

\* output length of a transpose convolution along one spatial axis
DeconvOutLen(n, l) ==
    IF l.padding = "same" THEN n * l.strides
    ELSE n * l.strides + (IF l.kernel_size > l.strides
                          THEN l.kernel_size - l.strides ELSE 0)

Bad == <<"shape error">>

LayerShape(l, s) ==
    IF s = Bad THEN Bad
    ELSE CASE l.type = "Conv2D" ->
              IF Len(s) = 4
              THEN <<s[1], ConvOutLen(s[2], l), ConvOutLen(s[3], l), l.units>>
              ELSE Bad
         [] l.type = "Conv2DTranspose" ->
              IF Len(s) = 4
              THEN <<s[1], DeconvOutLen(s[2], l), DeconvOutLen(s[3], l), l.units>>
              ELSE Bad
         [] l.type = "Dense" ->
              IF Len(s) >= 2 THEN [s EXCEPT ![Len(s)] = l.units] ELSE Bad
         [] l.type = "Flatten" -> <<s[1], Prod(Tail(s))>>
         [] l.type = "Reshape" ->
              IF Prod(Tail(s)) = Prod(l.target_shape)
              THEN <<s[1]>> \o l.target_shape ELSE Bad
         [] OTHER -> s

\* shape of the output of chain position i of graph g on an input of shape s
RECURSIVE NodeShape(_, _, _, _)
NodeShape(heap, g, i, s) ==
    IF i = 0 THEN s
    ELSE LayerShape(heap[g.chain[i].layer], NodeShape(heap, g, g.chain[i].from, s))

\* shapes of the model's outputs, in order
OutputShapes(heap, g, s) ==
    [k \in 1..Len(g.outs) |-> NodeShape(heap, g, g.outs[k], s)]

----------------------------------------------------------------------------
(* Symbolic tensors of the outer graph *)

\* batch size of a symbolic tensor (None)
None == 0

Tensor(op, ref, out, node, targs, shape) ==
    [op |-> op, ref |-> ref, out |-> out, node |-> node, args |-> targs,
     scalar |-> Rat(1, 1), shape |-> shape]

\* Input(shape=..., name=...)
Input(shape, name) == Tensor("Input", name, 0, name, <<>>, <<None>> \o shape)

\* model(t): one invocation (node) of sub-model ref on tensor t; the result
\* is one tensor per output of the model, all of the same node
Invoke(heap, subs, tens, ref, node, t) ==
    [k \in 1..Len(subs[ref].outs) |->
        Tensor("call", ref, k - 1, node, <<t>>,
               OutputShapes(heap, subs[ref], tens[t].shape)[k])]

\* the noise tensor sampling builds: shape (K.shape(z_mean)[0],
\* K.int_shape(z_mean)[1]), no tensor among its operands
RandomNormalTensor(tens, zm) ==
    Tensor("random_normal", "", 0, "epsilon", <<>>,
           <<tens[zm].shape[1], tens[zm].shape[2]>>)

\* the tensor sampling returns: z_mean + K.exp(0.5 * z_log_var) * epsilon
SamplingTensor(tens, zm, zlv, eps) ==
    Tensor("sampling", "sampler", 0, "z", <<zm, zlv, eps>>, tens[zm].shape)

\* Model(inputs, outputs, name=...)
Model(name, inputs, outputs) ==
    [name |-> name, inputs |-> inputs, outputs |-> outputs, losses |-> <<>>]

\* model.add_loss(t)
add_loss(m, t) == [m EXCEPT !.losses = Append(@, t)]

\* the tensors t is computed from, t included
RECURSIVE Ancestors(_, _)
Ancestors(tens, t) ==
    {t} \cup UNION { Ancestors(tens, tens[t].args[i]) :
                       i \in 1..Len(tens[t].args) }

Range(s) == { s[i] : i \in 1..Len(s) }

\* the tensors a composite model's outputs and bound losses are computed from
GraphTensors(tens, m) ==
    UNION { Ancestors(tens, t) : t \in Range(m.outputs) \cup Range(m.losses) }

\* the sub-models a composite model invokes
GraphSubmodels(tens, m) ==
    { tens[t].ref : t \in { u \in GraphTensors(tens, m) : tens[u].op = "call" } }

\* heap ids of the layers of a sub-model graph
GraphLayers(g) == { g.chain[i].layer : i \in 1..Len(g.chain) }

----------------------------------------------------------------------------
(* Tensor values: fixed point, 1.0 == Scale; a vector is a sequence of     *)
(* latent_dim values, a batch a sequence of vectors                        *)

\* K.exp on the arguments the model feeds it, rounded to 1/Scale
ExpFx(v) ==
    CASE v = -2 * Scale -> 135
      [] v = -Scale -> 368
      [] v = 0 -> Scale
      [] v = Scale -> 2718
      [] v = 2 * Scale -> 7389

MulFx(a, b) == (a * b) \div Scale

RECURSIVE SumRange(_, _, _)
SumRange(v, lo, hi) ==
    IF lo > hi THEN 0
    ELSE IF lo = hi THEN v[lo]
    ELSE LET mid == (lo + hi) \div 2
         IN SumRange(v, lo, mid) + SumRange(v, mid + 1, hi)
\* K.sum(v, axis=-1) of one sample
SumFx(v) == SumRange(v, 1, Len(v))
\* K.mean over the batch
MeanFx(v) == SumFx(v) \div Len(v)

\* KlTerm without the leading 1
KlTermNoOne(m, lv) == lv - MulFx(m, m) - ExpFx(lv)

\* 1 + z_log_var - K.square(z_mean) - K.exp(z_log_var), element i of a sample
KlTerm(m, lv) == Scale + lv - MulFx(m, m) - ExpFx(lv)

\* kl_loss = K.mean(-0.5 * K.sum(KlTerm, axis=-1))
KlLoss(z_mean, z_log_var) ==
    MeanFx([b \in 1..Len(z_mean) |->
              (-5 * SumFx([i \in 1..Len(z_mean[b]) |->
                             KlTerm(z_mean[b][i], z_log_var[b][i])])) \div 10])

\* SamplingValue with the variance in place of the standard deviation
SamplingValueVariance(m, lv, e) == m + MulFx(ExpFx(lv), e)

\* one element of sampling's result
SamplingValue(m, lv, e) == m + MulFx(ExpFx((5 * lv) \div 10), e)

\* sampling's result on a batch
Sampling(z_mean, z_log_var, epsilon) ==
    [b \in 1..Len(z_mean) |->
        [i \in 1..Len(z_mean[b]) |->
            SamplingValue(z_mean[b][i], z_log_var[b][i], epsilon[b][i])]]

\* a vector of length n, base everywhere but dev at position k
Vec(n, base, k, dev) == [i \in 1..n |-> IF i = k THEN dev ELSE base]

MeanVecs == { Vec(latent_dim, 0, 1, 0), Vec(latent_dim, 0, latent_dim, Scale) }
LogVarVecs == { Vec(latent_dim, 0, 1, 0),
                Vec(latent_dim, 2 * Scale, 1, -2 * Scale) }
NoiseVecs(n) == { Vec(n, Scale, 1, -Scale), Vec(n, 0, n, Scale) }

Batches(S) == UNION { [1..b -> S] : b \in 1..MaxBatch }

\* K.random_normal(shape=(batch, dim)): the arrays of that shape
RandomNormal(batch, dim) == [1..batch -> NoiseVecs(dim)]

\* values of the feature-similarity loss
NllValues == { Rat(0, 1), Rat(3, 1), Rat(-2, 1), Rat(5, 2) }

NoEval == [kind |-> "none", z_mean |-> <<>>, z_log_var |-> <<>>,
           epsilon |-> <<>>, nll |-> Rat(0, 1), out_batch |-> <<>>,
           out |-> Rat(0, 1)]

----------------------------------------------------------------------------
(* create_models, one action per statement *)

NoArgs == [recon_vs_gan_weight |-> Rat(0, 1), wdecay |-> 0, bn_mom |-> 0,
           bn_eps |-> 0]

Init ==
    /\ pc = "start"
    /\ args = NoArgs
    /\ layers = <<>>
    /\ sampler = 0
    /\ submodels = <<>>
    /\ tensors = <<>>
    /\ models = <<>>
    /\ normalized_weight = Rat(0, 1)
    /\ result = <<>>
    /\ fault = "none"
    /\ weights = <<>>
    /\ eval = NoEval

\* the heap after instantiating the layers ls, and their initial weights
Heap(ls) == layers \o ls
NewWeights(ls) ==
    [i \in { Len(layers) + j : j \in { k \in 1..Len(ls) : HasKernel(ls[k]) } }
       |-> 0]

\* def create_models(recon_vs_gan_weight, wdecay, bn_mom, bn_eps)
Call ==
    /\ pc = "start"
    /\ \E w \in Weights, wd \in Wdecays, m \in BnMoms, e \in BnEpss :
          args' = [recon_vs_gan_weight |-> w, wdecay |-> wd, bn_mom |-> m,
                   bn_eps |-> e]
    /\ pc' = "sampler"
    /\ UNCHANGED <<layers, sampler, submodels, tensors, models,
                   normalized_weight, result, fault, weights, eval>>

\* sampler = Lambda(sampling, ...)
CreateSampler ==
    /\ pc = "sampler"
    /\ layers' = Heap(<<Lambda("sampler")>>)
    /\ sampler' = Len(layers) + 1
    /\ pc' = "decoder"
    /\ UNCHANGED <<args, submodels, tensors, models, normalized_weight,
                   result, fault, weights, eval>>

\* decoder = Sequential([...], name='decoder')
CreateDecoder ==
    /\ pc = "decoder"
    /\ layers' = Heap(DecoderLayers(args))
    /\ weights' = weights @@ NewWeights(DecoderLayers(args))
    /\ submodels' = submodels @@ ("decoder" :> DecoderGraph(Len(layers)))
    /\ pc' = "encoder"
    /\ UNCHANGED <<args, sampler, tensors, models, normalized_weight, result,
                   fault, eval>>

\* encoder = create_encoder()
CreateEncoder ==
    /\ pc = "encoder"
    /\ layers' = Heap(EncoderLayers(args))
    /\ weights' = weights @@ NewWeights(EncoderLayers(args))
    /\ submodels' = submodels @@ ("encoder" :> EncoderGraph(Len(layers)))
    /\ pc' = "discriminator"
    /\ UNCHANGED <<args, sampler, tensors, models, normalized_weight, result,
                   fault, eval>>

\* discriminator = create_discriminator()
CreateDiscriminator ==
    /\ pc = "discriminator"
    /\ layers' = Heap(DiscriminatorLayers(args))
    /\ weights' = weights @@ NewWeights(DiscriminatorLayers(args))
    /\ submodels' = submodels
                    @@ ("discriminator" :> DiscriminatorGraph(Len(layers)))
    /\ pc' = "inputs"
    /\ UNCHANGED <<args, sampler, tensors, models, normalized_weight, result,
                   fault, eval>>

\* x = Input(...); z_p = Input(...)
CreateInputs ==
    /\ pc = "inputs"
    /\ tensors' = tensors @@ ("x" :> Input(image_shape, "input_image"))
                          @@ ("z_p" :> Input(<<latent_dim>>, "z_p"))
    /\ pc' = "encode"
    /\ UNCHANGED <<args, layers, sampler, submodels, models,
                   normalized_weight, result, fault, weights, eval>>

Build == UNCHANGED <<args, layers, sampler, submodels, models,
                     normalized_weight, result, fault, weights, eval>>

\* z_mean, z_log_var = encoder(x)
CallEncoder ==
    /\ pc = "encode"
    /\ LET o == Invoke(layers, submodels, tensors, "encoder", "encoder(x)", "x")
       IN tensors' = tensors @@ ("z_mean" :> o[1]) @@ ("z_log_var" :> o[2])
    /\ pc' = "sample"
    /\ Build

\* z = sampler([z_mean, z_log_var])
CallSampler ==
    /\ pc = "sample"
    /\ tensors' = tensors
          @@ ("epsilon" :> RandomNormalTensor(tensors, "z_mean"))
          @@ ("z" :> SamplingTensor(tensors, "z_mean", "z_log_var", "epsilon"))
    /\ pc' = "decode_z"
    /\ Build

\* x_tilde = decoder(z)
CallDecoderZ ==
    /\ pc = "decode_z"
    /\ tensors' = tensors @@ ("x_tilde" :>
          Invoke(layers, submodels, tensors, "decoder", "x_tilde", "z")[1])
    /\ pc' = "decode_z_p"
    /\ Build

\* CallDecoderZp on a second Sequential built from the same layer list
CallDecoderZpOnCopy ==
    /\ pc = "decode_z_p"
    /\ layers' = Heap(DecoderLayers(args))
    /\ weights' = weights @@ NewWeights(DecoderLayers(args))
    /\ submodels' = submodels @@ ("decoder_copy" :> DecoderGraph(Len(layers)))
    /\ tensors' = tensors @@ ("x_p" :>
          Invoke(layers', submodels', tensors, "decoder_copy", "x_p", "z_p")[1])
    /\ pc' = "dis_x"
    /\ UNCHANGED <<args, sampler, models, normalized_weight, result, fault,
                   eval>>

\* x_p = decoder(z_p)
CallDecoderZp ==
    /\ pc = "decode_z_p"
    /\ tensors' = tensors @@ ("x_p" :>
          Invoke(layers, submodels, tensors, "decoder", "x_p", "z_p")[1])
    /\ pc' = "dis_x"
    /\ Build

\* dis_v = discriminator(v): the score dis_v[0] and the features dis_v[1]
Discriminate(node, t) ==
    LET o == Invoke(layers, submodels, tensors, "discriminator", node, t)
    IN (node \o "[0]" :> o[1]) @@ (node \o "[1]" :> o[2])

\* dis_x = discriminator(x)
CallDiscriminatorX ==
    /\ pc = "dis_x"
    /\ tensors' = tensors @@ Discriminate("dis_x", "x")
    /\ pc' = "dis_x_tilde"
    /\ Build

\* dis_x_tilde = discriminator(x_tilde)
CallDiscriminatorXTilde ==
    /\ pc = "dis_x_tilde"
    /\ tensors' = tensors @@ Discriminate("dis_x_tilde", "x_tilde")
    /\ pc' = "dis_x_p"
    /\ Build

\* dis_x_p = discriminator(x_p)
CallDiscriminatorXp ==
    /\ pc = "dis_x_p"
    /\ tensors' = tensors @@ Discriminate("dis_x_p", "x_p")
    /\ pc' = "losses"
    /\ Build

Wire == UNCHANGED <<args, layers, sampler, submodels, result, weights, eval>>

\* ComputeLosses with the features of the generation in place of those of
\* the reconstruction
ComputeLossesOnGeneration ==
    /\ pc = "losses"
    /\ tensors' = tensors
          @@ ("dis_nll_loss" :>
                Tensor("mean_gaussian_negative_log_likelihood", "", 0,
                       "dis_nll_loss", <<"dis_x[1]", "dis_x_p[1]">>, <<>>))
          @@ ("kl_loss" :>
                Tensor("kl", "", 0, "kl_loss", <<"z_mean", "z_log_var">>, <<>>))
    /\ pc' = "encoder_train"
    /\ UNCHANGED <<models, normalized_weight, fault>>
    /\ Wire

\* dis_nll_loss = mean_gaussian_negative_log_likelihood(dis_x[1], dis_x_tilde[1])
\* kl_loss = K.mean(-0.5 * K.sum(1 + z_log_var - ..., axis=-1))
ComputeLosses ==
    /\ pc = "losses"
    /\ tensors' = tensors
          @@ ("dis_nll_loss" :>
                Tensor("mean_gaussian_negative_log_likelihood", "", 0,
                       "dis_nll_loss", <<"dis_x[1]", "dis_x_tilde[1]">>, <<>>))
          @@ ("kl_loss" :>
                Tensor("kl", "", 0, "kl_loss", <<"z_mean", "z_log_var">>, <<>>))
    /\ pc' = "encoder_train"
    /\ UNCHANGED <<models, normalized_weight, fault>>
    /\ Wire

\* encoder_train = Model(x, dis_x_tilde[1], name='e'); two add_loss calls
MakeEncoderTrain ==
    /\ pc = "encoder_train"
    /\ models' = models @@ ("encoder_train" :>
          add_loss(add_loss(Model("e", <<"x">>, <<"dis_x_tilde[1]">>),
                            "kl_loss"), "dis_nll_loss"))
    /\ pc' = "decoder_train"
    /\ UNCHANGED <<tensors, normalized_weight, fault>>
    /\ Wire

\* MakeDecoderTrain with the score of the real image as second output
MakeDecoderTrainOnReal ==
    /\ pc = "decoder_train"
    /\ models' = models @@ ("decoder_train" :>
          Model("de", <<"x", "z_p">>, <<"dis_x_tilde[0]", "dis_x[0]">>))
    /\ pc' = "normalize"
    /\ UNCHANGED <<tensors, normalized_weight, fault>>
    /\ Wire

\* decoder_train = Model([x, z_p], [dis_x_tilde[0], dis_x_p[0]], name='de')
MakeDecoderTrain ==
    /\ pc = "decoder_train"
    /\ models' = models @@ ("decoder_train" :>
          Model("de", <<"x", "z_p">>, <<"dis_x_tilde[0]", "dis_x_p[0]">>))
    /\ pc' = "normalize"
    /\ UNCHANGED <<tensors, normalized_weight, fault>>
    /\ Wire

\* NormalizedWeight with the operands of the subtraction exchanged
NormalizedWeightSwapped(w) == RatDiv(w, RatSub(w, Rat(1, 1)))
\* NormalizeFaults of a division by recon_vs_gan_weight
NormalizeFaultsOnZero(w) == RatDivFaults(Rat(1, 1), w)

\* recon_vs_gan_weight / (1. - recon_vs_gan_weight)
NormalizedWeight(w) == RatDiv(w, RatSub(Rat(1, 1), w))
NormalizeFaults(w) == RatDivFaults(w, RatSub(Rat(1, 1), w))

\* normalized_weight = recon_vs_gan_weight / (1. - recon_vs_gan_weight);
\* the ZeroDivisionError is not caught and ends the call
Normalize ==
    /\ pc = "normalize"
    /\ IF NormalizeFaults(args.recon_vs_gan_weight)
       THEN /\ fault' = "ZeroDivisionError"
            /\ pc' = "raised"
            /\ UNCHANGED normalized_weight
       ELSE /\ normalized_weight' = NormalizedWeight(args.recon_vs_gan_weight)
            /\ pc' = "decoder_loss"
            /\ UNCHANGED fault
    /\ UNCHANGED <<tensors, models>>
    /\ Wire

\* the tensor normalized_weight * dis_nll_loss
ScaledLoss(k, t) ==
    [Tensor("mul", "", 0, "scaled_loss", <<t>>, <<>>) EXCEPT !.scalar = k]

\* decoder_train.add_loss(normalized_weight * dis_nll_loss)
AddDecoderLoss ==
    /\ pc = "decoder_loss"
    /\ tensors' = tensors
          @@ ("scaled_loss" :> ScaledLoss(normalized_weight, "dis_nll_loss"))
    /\ models' = [models EXCEPT !["decoder_train"] = add_loss(@, "scaled_loss")]
    /\ pc' = "discriminator_train"
    /\ UNCHANGED <<normalized_weight, fault>>
    /\ Wire

\* discriminator_train = Model([x, z_p], [dis_x[0], dis_x_tilde[0], dis_x_p[0]])
MakeDiscriminatorTrain ==
    /\ pc = "discriminator_train"
    /\ models' = models @@ ("discriminator_train" :>
          Model("di", <<"x", "z_p">>,
                <<"dis_x[0]", "dis_x_tilde[0]", "dis_x_p[0]">>))
    /\ pc' = "vae"
    /\ UNCHANGED <<tensors, normalized_weight, fault>>
    /\ Wire

\* vae = Model(x, x_tilde, name='vae')
MakeVae ==
    /\ pc = "vae"
    /\ models' = models @@ ("vae" :> Model("vae", <<"x">>, <<"x_tilde">>))
    /\ pc' = "vaegan"
    /\ UNCHANGED <<tensors, normalized_weight, fault>>
    /\ Wire

\* vaegan = Model(x, dis_x_tilde[0], name='vaegan')
MakeVaegan ==
    /\ pc = "vaegan"
    /\ models' = models
                 @@ ("vaegan" :> Model("vaegan", <<"x">>, <<"dis_x_tilde[0]">>))
    /\ pc' = "return"
    /\ UNCHANGED <<tensors, normalized_weight, fault>>
    /\ Wire

\* Returned without its last element
ReturnedWithoutVaegan ==
    <<"encoder", "decoder", "discriminator", "encoder_train", "decoder_train",
      "discriminator_train", "vae">>

\* the tuple of the return statement
Returned ==
    <<"encoder", "decoder", "discriminator", "encoder_train", "decoder_train",
      "discriminator_train", "vae", "vaegan">>

\* return encoder, decoder, discriminator, encoder_train, ...
Return ==
    /\ pc = "return"
    /\ result' = Returned
    /\ pc' = "done"
    /\ UNCHANGED <<args, layers, sampler, submodels, tensors, models,
                   normalized_weight, fault, weights, eval>>

----------------------------------------------------------------------------
(* Use of the returned graphs.  The evaluations below read no trainable    *)
(* weight (their operands are drawn directly), so they are run on the      *)
(* graphs as returned; weight updates are followed on their own.           *)

Use == UNCHANGED <<args, layers, sampler, submodels, tensors, models,
                   normalized_weight, result, fault>>

\* a kernel of the standalone decoder is assigned a new value
SetWeight ==
    /\ pc \in {"done", "updated"}
    /\ \E id \in { i \in GraphLayers(submodels[result[2]]) : HasKernel(layers[i]) },
          v \in 0..MaxWeight :
          /\ weights[id] # v
          /\ weights' = [weights EXCEPT ![id] = v]
    /\ pc' = "updated"
    /\ UNCHANGED eval
    /\ Use

\* the kl_loss tensor evaluated on a batch of encoder outputs
EvalKl ==
    /\ pc = "done"
    /\ \E zm \in Batches(MeanVecs) :
       \E zlv \in [1..Len(zm) -> LogVarVecs] :
          eval' = [NoEval EXCEPT !.kind = "kl", !.z_mean = zm, !.z_log_var = zlv,
                                 !.out = Rat(KlLoss(zm, zlv), Scale)]
    /\ pc' = "evaluated"
    /\ UNCHANGED weights
    /\ Use

\* the sampler layer evaluated on a batch of encoder outputs: sampling draws
\* epsilon of shape (K.shape(z_mean)[0], K.int_shape(z_mean)[1])
EvalSampler ==
    /\ pc = "done"
    /\ \E zm \in Batches(MeanVecs) :
       \E zlv \in [1..Len(zm) -> LogVarVecs] :
       \E epsilon \in RandomNormal(Len(zm), tensors["epsilon"].shape[2]) :
          eval' = [NoEval EXCEPT !.kind = "sampler", !.z_mean = zm,
                                 !.z_log_var = zlv, !.epsilon = epsilon,
                                 !.out_batch = Sampling(zm, zlv, epsilon)]
    /\ pc' = "evaluated"
    /\ UNCHANGED weights
    /\ Use

\* the value of tensor t of op "mul" when its operand has value v
ScaledValue(t, v) == RatMul(t.scalar, v)

\* decoder_train's bound loss evaluated for a value of dis_nll_loss
EvalDecoderLoss ==
    /\ pc = "done"
    /\ \E v \in NllValues :
          eval' = [NoEval EXCEPT !.kind = "decoder_loss", !.nll = v,
                      !.out = ScaledValue(
                                 tensors[models["decoder_train"].losses[1]], v)]
    /\ pc' = "evaluated"
    /\ UNCHANGED weights
    /\ Use

----------------------------------------------------------------------------

Next ==
    \/ Call
    \/ CreateSampler
    \/ CreateDecoder
    \/ CreateEncoder
    \/ CreateDiscriminator
    \/ CreateInputs
    \/ CallEncoder
    \/ CallSampler
    \/ CallDecoderZ
    \/ CallDecoderZp
    \/ CallDiscriminatorX
    \/ CallDiscriminatorXTilde
    \/ CallDiscriminatorXp
    \/ ComputeLosses
    \/ MakeEncoderTrain
    \/ MakeDecoderTrain
    \/ Normalize
    \/ AddDecoderLoss
    \/ MakeDiscriminatorTrain
    \/ MakeVae
    \/ MakeVaegan
    \/ Return
    \/ SetWeight
    \/ EvalKl
    \/ EvalSampler
    \/ EvalDecoderLoss

Spec == Init /\ [][Next]_vars

----------------------------------------------------------------------------
(* Properties *)

recon_vs_gan_weight == args.recon_vs_gan_weight
One == Rat(1, 1)
Zero == Rat(0, 1)
InOpenUnit(w) == RatLt(Zero, w) /\ RatLt(w, One)

HasReturned == pc \in {"done", "updated", "evaluated"}
Composites == {"encoder_train", "decoder_train", "discriminator_train",
               "vae", "vaegan"}

\* the invocations of the sub-models named name: <<node, operands>>
InvocationsOf(name) ==
    { <<tensors[t].node, tensors[t].args>> :
        t \in { u \in DOMAIN tensors :
                  /\ tensors[u].op = "call"
                  /\ tensors[u].ref \in DOMAIN submodels
                  /\ submodels[tensors[u].ref].name = name } }

Kernels(ref) == { i \in GraphLayers(submodels[ref]) : HasKernel(layers[i]) }

\* the decoder kernels a composite graph computes with, and their values
DecoderWeightsSeenBy(m) ==
    LET refs == { r \in GraphSubmodels(tensors, models[m]) :
                    r \in DOMAIN submodels /\ submodels[r].name = "decoder" }
    IN [i \in UNION { Kernels(r) : r \in refs } |-> weights[i]]

\* t is output k of the discriminator applied to tensor img
IsDis(t, k, img) ==
    /\ tensors[t].op = "call"
    /\ tensors[t].ref = "discriminator"
    /\ tensors[t].out = k
    /\ tensors[t].args = <<img>>

\* t is the reconstruction: the decoder applied to the sampler's output on
\* the two outputs of the encoder applied to x
IsXTilde(t) ==
    /\ tensors[t].op = "call" /\ tensors[t].ref = "decoder"
    /\ LET z == tensors[t].args[1]
       IN /\ tensors[z].op = "sampling"
          /\ LET zm == tensors[z].args[1]
                 zlv == tensors[z].args[2]
             IN /\ tensors[zm].op = "call" /\ tensors[zm].ref = "encoder"
                /\ tensors[zm].out = 0 /\ tensors[zm].args = <<"x">>
                /\ tensors[zlv].op = "call" /\ tensors[zlv].ref = "encoder"
                /\ tensors[zlv].out = 1 /\ tensors[zlv].args = <<"x">>

\* t is the generation: the decoder applied to the input z_p
IsXP(t) ==
    /\ tensors[t].op = "call" /\ tensors[t].ref = "decoder"
    /\ tensors[t].args = <<"z_p">>

\* t is the realism score (k = 0) or the features (k = 1) of an image
\* satisfying Img
IsScoreOfX(t) == IsDis(t, 0, "x")
IsScoreOfXTilde(t) == \E i \in DOMAIN tensors : IsXTilde(i) /\ IsDis(t, 0, i)
IsScoreOfXP(t) == \E i \in DOMAIN tensors : IsXP(i) /\ IsDis(t, 0, i)
IsFeatOfX(t) == IsDis(t, 1, "x")
IsFeatOfXTilde(t) == \E i \in DOMAIN tensors : IsXTilde(i) /\ IsDis(t, 1, i)

IsFeat(t) == tensors[t].op = "call" /\ tensors[t].ref = "discriminator"
             /\ tensors[t].out = 1
IsScore(t) == tensors[t].op = "call" /\ tensors[t].ref = "discriminator"
              /\ tensors[t].out = 0

\* C1: in one call the encoder, the decoder and the discriminator are each
\* instantiated once, the decoder is invoked exactly twice (on z and on z_p)
\* and the discriminator exactly three times (on x, x_tilde and x_p), every
\* composite graph invokes only those three objects, and the decoder kernels
\* that decoder_train and vae compute with are the kernels of the standalone
\* decoder, with the values the standalone decoder holds.
C1_WeightSharing ==
    HasReturned =>
        /\ \A n \in {"encoder", "decoder", "discriminator"} :
              Cardinality({ k \in DOMAIN submodels : submodels[k].name = n }) = 1
        /\ InvocationsOf("encoder") = { <<"encoder(x)", <<"x">> >> }
        /\ InvocationsOf("decoder")
              = { <<"x_tilde", <<"z">> >>, <<"x_p", <<"z_p">> >> }
        /\ InvocationsOf("discriminator")
              = { <<"dis_x", <<"x">> >>, <<"dis_x_tilde", <<"x_tilde">> >>,
                  <<"dis_x_p", <<"x_p">> >> }
        /\ \A m \in Composites :
              GraphSubmodels(tensors, models[m])
                 \subseteq {result[1], result[2], result[3]}
        /\ DOMAIN weights = Kernels(result[1]) \cup Kernels(result[2])
                               \cup Kernels(result[3])
        /\ \A m \in {"decoder_train", "vae"} :
              DecoderWeightsSeenBy(m)
                 = [i \in Kernels(result[2]) |-> weights[i]]

C1_Witness ==
    /\ pc = "updated"
    /\ \E i \in Kernels(result[2]) : weights[i] # 0
    /\ DecoderWeightsSeenBy("vae") = [i \in Kernels(result[2]) |-> weights[i]]

\* C2 (as stated): for recon_vs_gan_weight in (0,1) the returned tuple has
\* exactly 7 graphs.
C2_SevenGraphs ==
    (HasReturned /\ InOpenUnit(recon_vs_gan_weight)) => Len(result) = 7

\* C2 (amended): for recon_vs_gan_weight in (0,1) the call does not fault
\* and the returned tuple has exactly 8 graphs, all different: encoder,
\* decoder, discriminator, encoder_train, decoder_train,
\* discriminator_train, vae, vaegan.
C2_EightGraphs ==
    InOpenUnit(recon_vs_gan_weight) =>
        /\ fault = "none"
        /\ pc # "raised"
        /\ HasReturned =>
              /\ Len(result) = 8
              /\ Cardinality(Range(result)) = 8
              /\ Range(result) \subseteq DOMAIN submodels \cup DOMAIN models
              /\ result[8] = "vaegan"

C2_Witness ==
    /\ pc = "done"
    /\ InOpenUnit(recon_vs_gan_weight)
    /\ Len(result) = 8

\* C3: encoder_train maps x to the discriminator's features of x_tilde;
\* decoder_train maps (x, z_p) to (score of x_tilde, score of x_p);
\* discriminator_train maps (x, z_p) to (score of x, of x_tilde, of x_p);
\* vae maps x to x_tilde; vaegan maps x to the score of x_tilde; only
\* encoder_train has a discriminator feature tensor among its outputs; the
\* discriminator's output 0 is the sigmoid unit and its output 1 the
\* convolution output d_feat.
C3_Wiring ==
    HasReturned =>
        /\ LET d == submodels["discriminator"]
           IN /\ layers[d.chain[d.outs[1]].layer].type = "Dense"
              /\ layers[d.chain[d.outs[1]].layer].activation = "sigmoid"
              /\ layers[d.chain[d.outs[2]].layer].type = "Conv2D"
        /\ models["encoder_train"].inputs = <<"x">>
        /\ Len(models["encoder_train"].outputs) = 1
        /\ IsFeatOfXTilde(models["encoder_train"].outputs[1])
        /\ models["decoder_train"].inputs = <<"x", "z_p">>
        /\ Len(models["decoder_train"].outputs) = 2
        /\ IsScoreOfXTilde(models["decoder_train"].outputs[1])
        /\ IsScoreOfXP(models["decoder_train"].outputs[2])
        /\ models["discriminator_train"].inputs = <<"x", "z_p">>
        /\ Len(models["discriminator_train"].outputs) = 3
        /\ IsScoreOfX(models["discriminator_train"].outputs[1])
        /\ IsScoreOfXTilde(models["discriminator_train"].outputs[2])
        /\ IsScoreOfXP(models["discriminator_train"].outputs[3])
        /\ models["vae"].inputs = <<"x">>
        /\ Len(models["vae"].outputs) = 1
        /\ IsXTilde(models["vae"].outputs[1])
        /\ models["vaegan"].inputs = <<"x">>
        /\ Len(models["vaegan"].outputs) = 1
        /\ IsScoreOfXTilde(models["vaegan"].outputs[1])
        /\ \A m \in Composites \ {"encoder_train"} :
              \A t \in Range(models[m].outputs) : ~IsFeat(t)

C3_Witness ==
    /\ pc = "done"
    /\ DOMAIN models = Composites
    /\ IsScoreOfXP(models["discriminator_train"].outputs[3])

\* C4: after the return encoder_train has exactly two bound losses, the KL
\* loss of (z_mean, z_log_var) and the feature-similarity loss of the
\* discriminator features of x and of x_tilde, not multiplied by any weight;
\* discriminator_train, vae and vaegan have none; no realism score is among
\* the tensors any bound loss is computed from.
C4_BoundLosses ==
    HasReturned =>
        /\ LET ls == models["encoder_train"].losses
           IN /\ Len(ls) = 2
              /\ tensors[ls[1]].op = "kl"
              /\ tensors[ls[1]].args = <<"z_mean", "z_log_var">>
              /\ tensors[ls[2]].op = "mean_gaussian_negative_log_likelihood"
              /\ tensors[ls[2]].scalar = One
              /\ Len(tensors[ls[2]].args) = 2
              /\ IsFeatOfX(tensors[ls[2]].args[1])
              /\ IsFeatOfXTilde(tensors[ls[2]].args[2])
        /\ \A m \in {"discriminator_train", "vae", "vaegan"} :
              models[m].losses = <<>>
        /\ \A m \in Composites : \A l \in Range(models[m].losses) :
              \A t \in Ancestors(tensors, l) :
                 /\ ~IsScore(t)
                 /\ tensors[t].op = "call" /\ tensors[t].ref = "decoder"
                       => IsXTilde(t)

C4_Witness ==
    /\ pc = "done"
    /\ Len(models["encoder_train"].losses) = 2
    /\ models["vaegan"].losses = <<>>

\* C5: decoder_train has exactly one bound loss, the feature-similarity
\* loss multiplied by k with k * (1 - w) = w for the weight w of the call;
\* the KL loss is not among the tensors it is computed from; and for every
\* w in (0,1) and every value L of the feature-similarity loss the bound
\* loss B satisfies B * (1 - w) = w * L.
C5_DecoderLoss ==
    /\ HasReturned =>
          LET ls == models["decoder_train"].losses
          IN /\ Len(ls) = 1
             /\ tensors[ls[1]].op = "mul"
             /\ tensors[ls[1]].args = <<"dis_nll_loss">>
             /\ tensors["dis_nll_loss"].op
                   = "mean_gaussian_negative_log_likelihood"
             /\ RatMul(tensors[ls[1]].scalar, RatSub(One, recon_vs_gan_weight))
                   = recon_vs_gan_weight
             /\ \A t \in Ancestors(tensors, ls[1]) : tensors[t].op # "kl"
    /\ (eval.kind = "decoder_loss" /\ InOpenUnit(recon_vs_gan_weight)) =>
          RatMul(eval.out, RatSub(One, recon_vs_gan_weight))
             = RatMul(recon_vs_gan_weight, eval.nll)

C5_Witness ==
    /\ eval.kind = "decoder_loss"
    /\ InOpenUnit(recon_vs_gan_weight)
    /\ eval.nll = Rat(5, 2)
    /\ eval.out # eval.nll

StepsAfterNormalize ==
    {"decoder_loss", "discriminator_train", "vae", "vaegan", "return", "done",
     "updated", "evaluated"}

\* C6: with recon_vs_gan_weight equal to 1 the division of the normalized
\* weight faults, nothing in create_models takes a step after the fault and
\* no tuple is returned; with any other value the call gets past the
\* normalization without a fault.
C6_DivisionByZero ==
    /\ pc = "raised" =>
          /\ recon_vs_gan_weight = One
          /\ fault = "ZeroDivisionError"
          /\ result = <<>>
          /\ ~ENABLED Next
    /\ recon_vs_gan_weight = One =>
          /\ pc \notin StepsAfterNormalize
          /\ result = <<>>
    /\ (pc \notin {"start", "raised"} /\ recon_vs_gan_weight # One) =>
          fault = "none"
    /\ fault # "none" => pc = "raised"

C6_Witness ==
    /\ pc = "raised"
    /\ fault = "ZeroDivisionError"
    /\ "decoder_train" \in DOMAIN models

GraphsBuilt == "dis_x_p[1]" \in DOMAIN tensors

\* C7: for every batch size b the encoder maps (b,64,64,3) to z_mean and
\* z_log_var of shape (b,128); the decoder maps (b,128) through (b,8,8,256),
\* (b,16,16,256), (b,32,32,128), (b,64,64,32) to (b,64,64,3); the
\* discriminator maps (b,64,64,3) to a score of shape (b,1) and features of
\* shape (b,8,8,256); the decoder's output has the shape of the
\* discriminator's input, also for the symbolic tensors x_tilde and x_p.
C7_Shapes ==
    GraphsBuilt =>
        /\ \A b \in 1..MaxBatch :
              /\ OutputShapes(layers, submodels["encoder"], <<b, 64, 64, 3>>)
                    = << <<b, 128>>, <<b, 128>> >>
              /\ LET at(i) == NodeShape(layers, submodels["decoder"], i, <<b, 128>>)
                 IN /\ at(4) = <<b, 8, 8, 256>>
                    /\ at(7) = <<b, 16, 16, 256>>
                    /\ at(10) = <<b, 32, 32, 128>>
                    /\ at(13) = <<b, 64, 64, 32>>
                    /\ at(14) = <<b, 64, 64, 3>>
              /\ OutputShapes(layers, submodels["decoder"], <<b, 128>>)
                    = << <<b, 64, 64, 3>> >>
              /\ OutputShapes(layers, submodels["discriminator"], <<b, 64, 64, 3>>)
                    = << <<b, 1>>, <<b, 8, 8, 256>> >>
        /\ tensors["z_mean"].shape = <<None, 128>>
        /\ tensors["z_log_var"].shape = <<None, 128>>
        /\ tensors["x_tilde"].shape = tensors["x"].shape
        /\ tensors["x_p"].shape = tensors["x"].shape
        /\ \A v \in {"dis_x", "dis_x_tilde", "dis_x_p"} :
              /\ tensors[v \o "[0]"].shape = <<None, 1>>
              /\ tensors[v \o "[1]"].shape = <<None, 8, 8, 256>>

C7_Witness ==
    /\ pc = "done"
    /\ tensors["x_tilde"].shape = <<None, 64, 64, 3>>
    /\ tensors["dis_x_tilde[1]"].shape = <<None, 8, 8, 256>>

AllZero(batch) ==
    \A b \in 1..Len(batch) : \A i \in 1..Len(batch[b]) : batch[b][i] = 0

\* C8: the KL loss is 0 when z_mean and z_log_var are 0 in every latent
\* dimension of every sample of the batch.
C8_KlZero ==
    (eval.kind = "kl" /\ AllZero(eval.z_mean) /\ AllZero(eval.z_log_var)) =>
        eval.out[1] = 0

C8_Witness ==
    /\ eval.kind = "kl"
    /\ Len(eval.z_mean) >= 2
    /\ \A b \in 1..Len(eval.z_mean) : Len(eval.z_mean[b]) = 128
    /\ AllZero(eval.z_mean)
    /\ AllZero(eval.z_log_var)
    /\ eval.out[1] = 0

\* C9: the sampler returns z_mean + exp(0.5 * z_log_var) * epsilon,
\* element by element; epsilon has the (batch, 128) shape of z_mean; the
\* noise tensor is computed from no other tensor, and the tensors of the
\* encoder that z is computed from are z_mean and z_log_var, its first two
\* operands.
C9_Sampler ==
    /\ "z" \in DOMAIN tensors =>
          /\ tensors["z"].args = <<"z_mean", "z_log_var", "epsilon">>
          /\ Ancestors(tensors, "epsilon") = {"epsilon"}
          /\ tensors["epsilon"].op = "random_normal"
          /\ tensors["epsilon"].shape = tensors["z_mean"].shape
          /\ tensors["epsilon"].shape = <<None, 128>>
          /\ { t \in Ancestors(tensors, "z") : tensors[t].ref = "encoder" }
                = {"z_mean", "z_log_var"}
    /\ eval.kind = "sampler" =>
          /\ Len(eval.epsilon) = Len(eval.z_mean)
          /\ Len(eval.out_batch) = Len(eval.z_mean)
          /\ \A b \in 1..Len(eval.z_mean) :
                /\ Len(eval.z_mean[b]) = 128
                /\ Len(eval.epsilon[b]) = 128
                /\ Len(eval.out_batch[b]) = 128
                /\ \A i \in 1..128 :
                      eval.out_batch[b][i]
                         = eval.z_mean[b][i]
                           + (ExpFx(eval.z_log_var[b][i] \div 2)
                                * eval.epsilon[b][i]) \div Scale

C9_Witness ==
    /\ eval.kind = "sampler"
    /\ Len(eval.z_mean) >= 2
    /\ \E b \in 1..Len(eval.z_mean) : \E i \in 1..128 :
          /\ eval.z_log_var[b][i] = 2 * Scale
          /\ eval.epsilon[b][i] = Scale
          /\ eval.out_batch[b][i] = eval.z_mean[b][i] + 2718

\* C10: every convolution kernel and every dense kernel of the encoder,
\* the heads z_mean and z_log_var included, uses He-uniform initialization
\* and carries an L2 regularizer with coefficient wdecay.
C10_EncoderKernels ==
    "encoder" \in DOMAIN submodels =>
        \A i \in Kernels("encoder") :
            /\ layers[i].kernel_initializer = "he_uniform"
            /\ layers[i].kernel_regularizer = l2(args.wdecay)

====
